---- MODULE Spec2Model ----
(***************************************************************************)
(* Model of .github/scripts/update_profile.py: the monthly profile update. *)
(* Text is modelled as a sequence of pieces (one-character strings for     *)
(* file names and hex colours, marker strings and free text for the        *)
(* README); "x in line" is membership of the piece x in the line.          *)
(***************************************************************************)
EXTENDS Integers, Sequences, FiniteSets, TLC

\* ------------------------------------------------------------------ bounds
MaxLines == 3       \* longest README drawn by InitDoc, in lines
MaxFiles == 2       \* largest Waifu listing drawn by Init
MaxRuns == 2        \* scheduled runs in one behaviour

\* ------------------------------------------------------- program constants
NumColors == 5
SwatchWidth == 25
SwatchHeight == 20
December == 12

\* ------------------------------------------------------------ str helpers
UpperChars == <<"A", "D", "E", "F", "G", "I", "J", "N", "O", "P", "R", "U">>
LowerChars == <<"a", "d", "e", "f", "g", "i", "j", "n", "o", "p", "r", "u">>

\* str.lower(), one character
LowerChar(ch) ==
    IF \E i \in 1..Len(UpperChars) : UpperChars[i] = ch
    THEN LowerChars[CHOOSE i \in 1..Len(UpperChars) : UpperChars[i] = ch]
    ELSE ch

\* str.lower()
Lower(s) == [i \in 1..Len(s) |-> LowerChar(s[i])]

\* str.endswith(suffix)
EndsWith(s, suffix) ==
    /\ Len(s) >= Len(suffix)
    /\ SubSeq(s, Len(s) - Len(suffix) + 1, Len(s)) = suffix

\* str.endswith(tuple of suffixes)
EndsWithAny(s, suffixes) == \E suffix \in suffixes : EndsWith(s, suffix)

RECURSIVE LStrip(_, _)
\* str.lstrip(ch)
LStrip(s, ch) ==
    IF s # <<>> /\ Head(s) = ch THEN LStrip(Tail(s), ch) ELSE s

\* piece in line
Contains(line, piece) == \E i \in 1..Len(line) : line[i] = piece

NL == "\n"

\* position of the k-th newline of content; 0 before the first, Len + 1 after the last
NewlineAt(content, k) ==
    LET nl == { i \in 1..Len(content) : content[i] = NL }
    IN  IF k = 0 THEN 0
        ELSE IF k > Cardinality(nl) THEN Len(content) + 1
        ELSE CHOOSE i \in nl : Cardinality({ j \in nl : j < i }) = k - 1

\* content.split('\n')
Split(content) ==
    LET n == Cardinality({ i \in 1..Len(content) : content[i] = NL }) + 1
    IN  [ k \in 1..n |->
            SubSeq(content, NewlineAt(content, k - 1) + 1,
                            NewlineAt(content, k) - 1) ]

RECURSIVE Join(_)
\* '\n'.join(lines)
Join(ls) ==
    IF Len(ls) = 0 THEN <<>>
    ELSE IF Len(ls) = 1 THEN ls[1]
    ELSE ls[1] \o <<NL>> \o Join(Tail(ls))

RECURSIVE Concat(_)
\* "".join(list)
Concat(ls) == IF Len(ls) = 0 THEN <<>> ELSE ls[1] \o Concat(Tail(ls))

\* ------------------------------------------------------------- file names
PadoruPng == <<"p", "a", "d", "o", "r", "u", ".", "p", "n", "g">>
PadoruUpper == <<"P", "a", "d", "o", "r", "u", ".", "P", "N", "G">>
APng == <<"a", ".", "p", "n", "g">>
BJpg == <<"b", ".", "j", "p", "g">>
CJpeg == <<"c", ".", "J", "P", "E", "G">>
DGif == <<"d", ".", "g", "i", "f">>
NotesTxt == <<"n", ".", "t", "x", "t">>

FileNames == {PadoruPng, PadoruUpper, APng, BJpg, CJpeg, DGif, NotesTxt}

ImageExtensions ==
    { <<".", "j", "p", "g">>, <<".", "j", "p", "e", "g">>,
      <<".", "p", "n", "g">>, <<".", "g", "i", "f">> }

\* mutant: the seasonal exclusion left out
AvailableImagesNoSeason(files, current_month) ==
    { file \in files : EndsWithAny(Lower(file), ImageExtensions) }

\* get_available_images: the filter of the listing
AvailableImages(files, current_month) ==
    { file \in files :
        /\ EndsWithAny(Lower(file), ImageExtensions)
        /\ ~(Lower(file) = PadoruPng /\ current_month # December) }

\* ----------------------------------------------------------------- colours
HexDigits == <<"0", "1", "2", "3", "4", "5", "6", "7",
               "8", "9", "a", "b", "c", "d", "e", "f">>

\* ndarray.astype(int) of a non-negative float held in tenths
AsTypeInt(tenths) == tenths \div 10

\* format(c, '02x') for 0 <= c <= 255
Format02x(c) == <<HexDigits[(c \div 16) + 1], HexDigits[(c % 16) + 1]>>

HexValue(ch) == (CHOOSE i \in 1..16 : HexDigits[i] = ch) - 1

\* int(two_digits, 16)
IntBase16(s) == HexValue(s[1]) * 16 + HexValue(s[2])

\* '#' + ''.join(format(int(c), '02x') for c in color)
HexColor(center) ==
    <<"#">> \o Format02x(AsTypeInt(center[1]))
            \o Format02x(AsTypeInt(center[2]))
            \o Format02x(AsTypeInt(center[3]))

\* kmeans.cluster_centers_ of the sample images, channels in tenths
ClusterCenters(file) ==
    CASE file = APng ->
            << <<0, 0, 0>>, <<2550, 1287, 109>>, <<180, 520, 860>>,
               <<1000, 1000, 1000>>, <<2550, 2550, 2550>> >>
      [] file = BJpg ->
            << <<102, 300, 40>>, <<107, 305, 49>>, <<180, 520, 860>>,
               <<1000, 1000, 1000>>, <<2004, 15, 999>> >>
      [] file = CJpeg ->
            << <<170, 170, 170>>, <<170, 170, 170>>, <<170, 170, 170>>,
               <<170, 170, 170>>, <<170, 170, 170>> >>
      [] file = DGif ->
            << <<2550, 2550, 2550>>, <<0, 0, 0>>, <<10, 20, 30>>,
               <<40, 50, 60>>, <<70, 80, 90>> >>
      [] OTHER ->
            << <<2300, 100, 100>>, <<100, 1500, 100>>, <<2550, 2550, 2550>>,
               <<2400, 2000, 1600>>, <<50, 50, 50>> >>

\* extract_dominant_colors
ExtractDominantColors(file) ==
    [n \in 1..NumColors |-> HexColor(ClusterCenters(file)[n])]

\* create_color_image: the RGB triple parsed from the hex string
ParseRGB(hex_clean) ==
    << IntBase16(SubSeq(hex_clean, 1, 2)),
       IntBase16(SubSeq(hex_clean, 3, 4)),
       IntBase16(SubSeq(hex_clean, 5, 6)) >>

\* create_color_image: the image it builds
ColorImage(hex_color) ==
    [ width |-> SwatchWidth, height |-> SwatchHeight,
      fill |-> ParseRGB(LStrip(hex_color, "#")) ]

\* mutant: the path built from the first two hex digits only
SwatchPathRedOnly(hex_color) ==
    <<"img/">> \o SubSeq(LStrip(hex_color, "#"), 1, 2) \o <<".png">>

\* create_color_image: img_path
SwatchPath(hex_color) == <<"img/">> \o LStrip(hex_color, "#") \o <<".png">>

\* mutant: the directory emptied before the file is saved
SaveFileIntoCleanDir(dir, path, img) == [p \in {path} |-> img]

\* img.save(img_path): create or overwrite one file of the directory
SaveFile(dir, path, img) ==
    [p \in (DOMAIN dir) \cup {path} |-> IF p = path THEN img ELSE dir[p]]

EmptyDir == [p \in {} |-> 0]

\* ------------------------------------------------------------ README text
ImgMarker == "<img src=\"cropped.jpg\""
OpenMarker == "<p align=\"center\">"
CloseMarker == "</p>"

NewImgLine ==
    << ImgMarker,
       " alt=\"Unfortunately I didn't find the author of the pic, feel to open a pull request if found\" width=\"320\" />" >>

\* one <img> swatch reference
SwatchRef(color) ==
    <<"<img alt=\"">> \o color
      \o <<"\" src=\"https://raw.githubusercontent.com/TryKatChup/TryKatChup/main/img/">>
      \o LStrip(color, "#")
      \o <<".png\" width=\"25\" height=\"20\" />">>

\* new_color_palette_line
NewColorPaletteLine(color_imgs) ==
    <<OpenMarker, NL>> \o Concat(color_imgs) \o <<NL, CloseMarker>>

\* index of the first line holding the piece, 0 when there is none
FirstIndex(ls, piece) ==
    IF \E i \in 1..Len(ls) : Contains(ls[i], piece)
    THEN CHOOSE i \in 1..Len(ls) :
            /\ Contains(ls[i], piece)
            /\ \A j \in 1..(i - 1) : ~Contains(ls[j], piece)
    ELSE 0

\* mutant: the loop without its break
ReplaceEveryImageLine(ls) ==
    [i \in 1..Len(ls) |->
        IF Contains(ls[i], ImgMarker) THEN NewImgLine ELSE ls[i]]

\* the for loop with break: replace the first image line
ReplaceImageLine(ls) ==
    LET i == FirstIndex(ls, ImgMarker)
    IN  IF i = 0 THEN ls ELSE [ls EXCEPT ![i] = NewImgLine]

\* mutant: the inner while never advances
SkipToCloseAtOnce(ls, i) == i

RECURSIVE SkipToClose(_, _)
\* the inner while: first index >= i of a line holding </p>, else Len + 1
SkipToClose(ls, i) ==
    IF i <= Len(ls) /\ ~Contains(ls[i], CloseMarker)
    THEN SkipToClose(ls, i + 1)
    ELSE i

RECURSIVE ReplaceLoop(_, _, _, _, _)
\* the outer while, indices 1-based
ReplaceLoop(ls, i, in_color_section, new_lines, block) ==
    IF i > Len(ls) THEN new_lines
    ELSE IF Contains(ls[i], OpenMarker) /\ ~in_color_section
         THEN LET e == SkipToClose(ls, i)
                  skipped == IF e <= Len(ls) THEN e + 1 ELSE e
              IN  ReplaceLoop(ls, skipped + 1, TRUE, new_lines \o block, block)
         ELSE ReplaceLoop(ls, i + 1, in_color_section,
                          Append(new_lines, ls[i]), block)

\* the palette replacement of update_readme
ReplaceColorPalette(ls, color_imgs) ==
    ReplaceLoop(ls, 1, FALSE, <<>>, Split(NewColorPaletteLine(color_imgs)))

\* update_readme as a function of the file content
UpdateReadmeContent(content, colors) ==
    Join(ReplaceColorPalette(ReplaceImageLine(Split(content)),
                             [n \in 1..Len(colors) |-> SwatchRef(colors[n])]))

\* ------------------------------------------------------------------ state
VARIABLES
    now_month,       \* datetime.now().month
    waifu_exists,    \* os.path.exists("Waifu")
    waifu,           \* os.listdir("Waifu")
    readme_exists,   \* os.path.exists("README.md")
    readme,          \* content of README.md
    cropped,         \* the file cropped.jpg
    img_dir,         \* the files of img/, path -> image
    pc,              \* position of the run in main
    images,          \* main: images
    selected_image,  \* main: selected_image
    colors,          \* main: colors
    lines,           \* update_readme: lines, after the image line step
    color_imgs,      \* update_readme: color_imgs
    error,           \* the exception main re-raises
    runs_left,       \* scheduled runs still to come
    log,             \* steps completed by the current run, in order
    readme0,         \* README.md as the current run found it
    img_dir0,        \* img/ as the current run found it
    cropped0,        \* cropped.jpg as the current run found it
    rendered         \* every colour a swatch was saved for, over all runs

vars == << now_month, waifu_exists, waifu, readme_exists, readme, cropped,
           img_dir, pc, images, selected_image, colors, lines, color_imgs,
           error, runs_left, log, readme0, img_dir0, cropped0, rendered >>

files == << now_month, waifu_exists, waifu, readme_exists >>
history == << runs_left, readme0, img_dir0, cropped0 >>

NoFile == [exists |-> FALSE, source |-> <<>>, encoding |-> "none"]

\* README lines the sample documents are made of
TextA == <<"# Hi there">>
TextB == <<"some text">>
OldImgLine == <<ImgMarker, " alt=\"old\" width=\"300\" />">>
OpenLine == <<OpenMarker>>
CloseLine == <<CloseMarker>>
OneLineBlock == <<OpenMarker, "old swatches", CloseMarker>>

OpenImgLine == <<OpenMarker, ImgMarker, " alt=\"old\" />">>

DocLines ==
    {TextA, TextB, OldImgLine, OpenLine, CloseLine, OneLineBlock, OpenImgLine}

Docs == UNION { [1..n -> DocLines] : n \in 1..MaxLines }

SampleReadmes ==
    { Join(<<TextA, OldImgLine, OneLineBlock, TextB>>), Join(<<TextA>>) }

Listings == { S \in SUBSET FileNames : Cardinality(S) <= MaxFiles }

ScenarioListings == { {BJpg, PadoruPng}, {NotesTxt} }

InitRun ==
    /\ cropped = NoFile
    /\ img_dir = EmptyDir
    /\ pc = "start"
    /\ images = {}
    /\ selected_image = <<>>
    /\ colors = <<>>
    /\ lines = <<>>
    /\ color_imgs = <<>>
    /\ error = "none"
    /\ log = <<>>
    /\ readme0 = readme
    /\ img_dir0 = img_dir
    /\ cropped0 = cropped
    /\ rendered = {}

\* late in the year, any small listing, two sample documents
Init ==
    /\ now_month \in {December - 1, December}
    /\ waifu_exists \in BOOLEAN
    /\ waifu \in IF waifu_exists THEN Listings ELSE {{}}
    /\ readme_exists \in BOOLEAN
    /\ readme \in IF readme_exists THEN SampleReadmes ELSE {<<>>}
    /\ runs_left = MaxRuns - 1
    /\ InitRun

\* the scenario folder in June, any small document
InitDoc ==
    /\ now_month = 6
    /\ waifu_exists \in BOOLEAN
    /\ waifu \in IF waifu_exists THEN ScenarioListings ELSE {{}}
    /\ readme_exists \in BOOLEAN
    /\ readme \in IF readme_exists THEN { Join(d) : d \in Docs } ELSE {<<>>}
    /\ runs_left = 1
    /\ InitRun

\* except Exception as e: print(...); raise
Raise(e) ==
    /\ pc' = "error"
    /\ error' = e

\* ---------------------------------------------------------------- actions
GetAvailableImages ==
    /\ pc = "start"
    /\ waifu_exists
    /\ images' = AvailableImages(waifu, now_month)
    /\ pc' = "choose"
    /\ log' = Append(log, "list")
    /\ UNCHANGED << files, history, readme, cropped, img_dir, selected_image,
                    colors, lines, color_imgs, error, rendered >>

\* mutant: a missing folder read as an empty listing
MissingFolderIsEmpty ==
    /\ pc = "start"
    /\ ~waifu_exists
    /\ images' = {}
    /\ pc' = "choose"
    /\ log' = Append(log, "list")
    /\ UNCHANGED << files, history, readme, cropped, img_dir, selected_image,
                    colors, lines, color_imgs, error, rendered >>

GetAvailableImagesNotFound ==
    /\ pc = "start"
    /\ ~waifu_exists
    /\ Raise("FileNotFoundError: Waifu")
    /\ UNCHANGED << files, history, readme, cropped, img_dir, images,
                    selected_image, colors, lines, color_imgs, log, rendered >>

NoImages ==
    /\ pc = "choose"
    /\ images = {}
    /\ Raise("ValueError: no images")
    /\ UNCHANGED << files, history, readme, cropped, img_dir, images,
                    selected_image, colors, lines, color_imgs, log, rendered >>

RandomChoice ==
    /\ pc = "choose"
    /\ \E file \in images : selected_image' = file
    /\ pc' = "copy"
    /\ log' = Append(log, "choose")
    /\ UNCHANGED << files, history, readme, cropped, img_dir, images,
                    colors, lines, color_imgs, error, rendered >>

\* copy_selected_image: the file it leaves at cropped.jpg
CroppedFrom(file) ==
    IF EndsWith(Lower(file), <<".", "j", "p", "g">>)
       \/ EndsWith(Lower(file), <<".", "j", "p", "e", "g">>)
    THEN [exists |-> TRUE, source |-> file, encoding |-> "copy"]
    ELSE [exists |-> TRUE, source |-> file, encoding |-> "JPEG RGB"]

CopySelectedImage ==
    /\ pc = "copy"
    /\ cropped' = CroppedFrom(selected_image)
    /\ pc' = "extract"
    /\ log' = Append(log, "copy")
    /\ UNCHANGED << files, history, readme, img_dir, images, selected_image,
                    colors, lines, color_imgs, error, rendered >>

\* mutant: the exception of the copy swallowed, the run goes on
CopyFailureIgnored ==
    /\ pc = "copy"
    /\ pc' = "extract"
    /\ UNCHANGED << files, history, readme, cropped, img_dir, images,
                    selected_image, colors, lines, color_imgs, error, log,
                    rendered >>

CopySelectedImageFails ==
    /\ pc = "copy"
    /\ Raise("OSError: copy")
    /\ UNCHANGED << files, history, readme, cropped, img_dir, images,
                    selected_image, colors, lines, color_imgs, log, rendered >>

ExtractColors ==
    /\ pc = "extract"
    /\ colors' = ExtractDominantColors(selected_image)
    /\ pc' = "readme"
    /\ log' = Append(log, "extract")
    /\ UNCHANGED << files, history, readme, cropped, img_dir, images,
                    selected_image, lines, color_imgs, error, rendered >>

ExtractColorsFails ==
    /\ pc = "extract"
    /\ Raise("OSError: extract")
    /\ UNCHANGED << files, history, readme, cropped, img_dir, images,
                    selected_image, colors, lines, color_imgs, log, rendered >>

\* update_readme, lines 73-91: read, split, replace the image line
ReadReadme ==
    /\ pc = "readme"
    /\ readme_exists
    /\ lines' = ReplaceImageLine(Split(readme))
    /\ color_imgs' = <<>>
    /\ pc' = "render"
    /\ log' = Append(log, "read")
    /\ UNCHANGED << files, history, readme, cropped, img_dir, images,
                    selected_image, colors, error, rendered >>

ReadmeNotFound ==
    /\ pc = "readme"
    /\ ~readme_exists
    /\ Raise("FileNotFoundError: README.md")
    /\ UNCHANGED << files, history, readme, cropped, img_dir, images,
                    selected_image, colors, lines, color_imgs, log, rendered >>

\* update_readme, lines 98-101: one iteration of the colour loop
CreateColorImage ==
    /\ pc = "render"
    /\ Len(color_imgs) < Len(colors)
    /\ LET color == colors[Len(color_imgs) + 1]
       IN  /\ img_dir' = SaveFile(img_dir, SwatchPath(color), ColorImage(color))
           /\ color_imgs' = Append(color_imgs, SwatchRef(color))
           /\ rendered' = rendered \cup {color}
    /\ log' = Append(log, "render")
    /\ UNCHANGED << files, history, readme, cropped, pc, images,
                    selected_image, colors, lines, error >>

CreateColorImageFails ==
    /\ pc = "render"
    /\ Len(color_imgs) < Len(colors)
    /\ Raise("OSError: swatch")
    /\ UNCHANGED << files, history, readme, cropped, img_dir, images,
                    selected_image, colors, lines, color_imgs, log, rendered >>

\* update_readme, lines 103-128: replace the palette and write the file
WriteReadme ==
    /\ pc = "render"
    /\ Len(color_imgs) = Len(colors)
    /\ readme' = Join(ReplaceColorPalette(lines, color_imgs))
    /\ pc' = "done"
    /\ log' = Append(log, "write")
    /\ UNCHANGED << files, history, cropped, img_dir, images, selected_image,
                    colors, lines, color_imgs, error, rendered >>

\* open(readme_path, 'w') fails, or f.write fails after the truncation
WriteReadmeFails ==
    /\ pc = "render"
    /\ Len(color_imgs) = Len(colors)
    /\ \/ readme' = readme
       \/ readme' = <<>>
    /\ Raise("OSError: write")
    /\ UNCHANGED << files, history, cropped, img_dir, images, selected_image,
                    colors, lines, color_imgs, log, rendered >>

\* the next scheduled (monthly) run of the script
NextRun ==
    /\ pc \in {"done", "error"}
    /\ runs_left > 0
    /\ runs_left' = runs_left - 1
    /\ now_month' = (now_month % 12) + 1
    /\ pc' = "start"
    /\ images' = {}
    /\ selected_image' = <<>>
    /\ colors' = <<>>
    /\ lines' = <<>>
    /\ color_imgs' = <<>>
    /\ error' = "none"
    /\ log' = <<>>
    /\ readme0' = readme
    /\ img_dir0' = img_dir
    /\ cropped0' = cropped
    /\ UNCHANGED << waifu_exists, waifu, readme_exists, readme, cropped,
                    img_dir, rendered >>

Next ==
    \/ GetAvailableImages
    \/ GetAvailableImagesNotFound
    \/ NoImages
    \/ RandomChoice
    \/ CopySelectedImage
    \/ CopySelectedImageFails
    \/ ExtractColors
    \/ ExtractColorsFails
    \/ ReadReadme
    \/ ReadmeNotFound
    \/ CreateColorImage
    \/ CreateColorImageFails
    \/ WriteReadme
    \/ WriteReadmeFails
    \/ NextRun

Spec == Init /\ [][Next]_vars

SpecDoc == InitDoc /\ [][Next]_vars

\* ----------------------------------------------------------------- claims
Range(f) == { f[i] : i \in DOMAIN f }

\* the block update_readme builds for the colours of the run
FreshBlock ==
    << <<OpenMarker>>,
       Concat([n \in 1..Len(colors) |-> SwatchRef(colors[n])]),
       <<CloseMarker>> >>

\* indices of the lines holding the piece
LinesWith(ls, piece) == { i \in 1..Len(ls) : Contains(ls[i], piece) }

\* least element of a non-empty set of numbers
Least(S) == CHOOSE i \in S : \A j \in S : i <= j

\* first line holding the opening marker, 0 when there is none
OpenAt(ls) ==
    IF LinesWith(ls, OpenMarker) = {} THEN 0 ELSE Least(LinesWith(ls, OpenMarker))

\* closing-marker lines at or after line j
ClosesFrom(ls, j) == { i \in LinesWith(ls, CloseMarker) : i >= j }

AllSwatchesSaved ==
    \A n \in 1..Len(colors) :
        /\ SwatchPath(colors[n]) \in DOMAIN img_dir
        /\ img_dir[SwatchPath(colors[n])].width = SwatchWidth
        /\ img_dir[SwatchPath(colors[n])].height = SwatchHeight

\* C1 (as claimed): in a document with one image line followed by one swatch
\* block, every line before the block other than the image line, and every
\* line after the block's closing line, is kept verbatim and in order.
C1_LinesOutsidePreserved ==
    pc = "done" =>
        LET old == Split(readme0)
            new == Split(readme)
            j == OpenAt(old)
            imgs == LinesWith(old, ImgMarker)
        IN  ( /\ Cardinality(imgs) = 1
              /\ Cardinality(LinesWith(old, OpenMarker)) = 1
              /\ Least(imgs) < j
              /\ ClosesFrom(old, j) # {} )
            => LET e == Least(ClosesFrom(old, j))
                   after == Len(old) - e
               IN  /\ Len(new) >= (j - 1) + after
                   /\ \A i \in 1..(j - 1) : i \notin imgs => new[i] = old[i]
                   /\ \A m \in 1..after :
                          new[Len(new) - after + m] = old[e + m]

\* C2 (as claimed): update_readme applied again with the same colour list
\* leaves the document it wrote byte-identical.
C2_Idempotent ==
    pc = "done" => UpdateReadmeContent(readme, colors) = readme

\* C3 (as claimed): padoru.png is never selected outside December, is a
\* candidate in December when listed, and every other listed file with an
\* image extension is a candidate in every month.
C3_SelectorAsClaimed ==
    /\ (pc \in {"copy", "extract", "readme", "render", "done"}
            /\ now_month # December)
        => selected_image # PadoruPng
    /\ (pc = "choose" /\ now_month = December /\ PadoruPng \in waifu)
        => PadoruPng \in images
    /\ pc = "choose"
        => \A file \in waifu :
              (file # PadoruPng /\ EndsWithAny(Lower(file), ImageExtensions))
              => file \in images

\* C3 (amended): no file whose lower-cased name is padoru.png is selected
\* outside December; padoru.png is a candidate in December when listed; every
\* listed file with an image extension whose lower-cased name is not
\* padoru.png is a candidate in every month, and nothing else is.
C3_Selector ==
    /\ (pc \in {"copy", "extract", "readme", "render", "done"}
            /\ now_month # December)
        => Lower(selected_image) # PadoruPng
    /\ (pc = "choose" /\ now_month = December /\ PadoruPng \in waifu)
        => PadoruPng \in images
    /\ pc = "choose"
        => /\ \A file \in waifu :
                (Lower(file) # PadoruPng
                    /\ EndsWithAny(Lower(file), ImageExtensions))
                => file \in images
           /\ \A file \in images :
                file \in waifu /\ EndsWithAny(Lower(file), ImageExtensions)
    /\ pc \in {"copy", "extract", "readme", "render", "done"}
        => selected_image \in images

C3_Witness ==
    /\ pc = "copy"
    /\ now_month # December
    /\ PadoruPng \in waifu
    /\ selected_image \in waifu

\* C4 (as claimed): a successful run that found img/ empty leaves the output
\* image and exactly NumColors swatch files.
C4_ExactlyNSwatches ==
    (pc = "done" /\ img_dir0 = EmptyDir)
        => /\ cropped.exists
           /\ Cardinality(DOMAIN img_dir) = NumColors

\* C4 (amended): a successful run that found img/ empty leaves the output
\* image and exactly one swatch file per distinct colour of the palette, at
\* most NumColors, each at the path of its colour.
C4_OneSwatchPerDistinctColor ==
    (pc = "done" /\ img_dir0 = EmptyDir)
        => /\ cropped.exists
           /\ cropped.source = selected_image
           /\ Len(colors) = NumColors
           /\ AllSwatchesSaved
           /\ Cardinality(DOMAIN img_dir) = Cardinality(Range(colors))
           /\ Cardinality(DOMAIN img_dir) <= NumColors

C4_Witness ==
    /\ pc = "done"
    /\ img_dir0 = EmptyDir
    /\ cropped.exists
    /\ Cardinality(DOMAIN img_dir) = NumColors

\* C5 (as claimed): the first block, from the first opening-marker line to the
\* next closing-marker line, is replaced in place by the three fresh lines;
\* every line before and after it, a later block included, is untouched.
C5_BlockReplacedInPlace ==
    pc = "done" =>
        LET j == OpenAt(lines)
            new == Split(readme)
        IN  (j > 0 /\ ClosesFrom(lines, j) # {})
            => LET e == Least(ClosesFrom(lines, j))
               IN  new = SubSeq(lines, 1, j - 1) \o FreshBlock
                            \o SubSeq(lines, e + 1, Len(lines))

\* C6: the image step replaces the first line holding the image marker by the
\* fixed tag and changes no other line; with no such line it changes nothing.
C6_FirstImageLineOnly ==
    pc = "render" =>
        LET old == Split(readme)
            imgs == LinesWith(old, ImgMarker)
        IN  /\ Len(lines) = Len(old)
            /\ \A i \in 1..Len(old) :
                  lines[i] = IF imgs # {} /\ i = Least(imgs)
                             THEN NewImgLine ELSE old[i]

C6_Witness ==
    /\ pc = "render"
    /\ LET old == Split(readme)
           imgs == LinesWith(old, ImgMarker)
       IN  /\ Cardinality(imgs) >= 2
           /\ lines[Least(imgs)] = NewImgLine
           /\ \E i \in imgs : lines[i] = OldImgLine

\* steps of the kind completed so far by the current run
Count(kind) == Cardinality({ i \in 1..Len(log) : log[i] = kind })

\* C7: a failed step ends the run in the error state and no later step of that
\* run executes; the document changes only in a run that already wrote the
\* output image and rendered all its swatches; a failure before the document
\* write leaves the document unchanged.
C7_ErrorsAbort ==
    /\ [][ /\ pc = "error" => pc' = "start"
           /\ (error = "none" /\ error' # "none") => pc' = "error"
           /\ readme' # readme =>
                /\ Count("copy") = 1
                /\ cropped = CroppedFrom(selected_image)
                /\ Count("render") = NumColors
                /\ AllSwatchesSaved ]_vars
    /\ [](/\ (pc = "error") <=> (error # "none")
          /\ (pc = "error" /\ error # "OSError: write") => readme = readme0)

C7_Witness ==
    /\ pc = "error"
    /\ error = "OSError: extract"
    /\ cropped # cropped0
    /\ readme = readme0

\* no listed file passes the filter of the selector this month
NothingEligible ==
    \A file \in waifu :
        \/ ~EndsWithAny(Lower(file), ImageExtensions)
        \/ (Lower(file) = PadoruPng /\ now_month # December)

\* C8: a missing source folder fails the run with Not-Found and an empty
\* candidate set fails it with Empty-Selection, in both cases before any write.
C8_SelectorFailures ==
    /\ (~waifu_exists /\ pc # "start")
        => (pc = "error" /\ error = "FileNotFoundError: Waifu")
    /\ (waifu_exists /\ NothingEligible /\ pc \notin {"start", "choose"})
        => (pc = "error" /\ error = "ValueError: no images")
    /\ error \in {"FileNotFoundError: Waifu", "ValueError: no images"}
        => /\ readme = readme0
           /\ img_dir = img_dir0
           /\ cropped = cropped0
           /\ log \in {<<>>, <<"list">>}

C8_Witness ==
    /\ pc = "error"
    /\ error = "ValueError: no images"
    /\ PadoruPng \in waifu
    /\ img_dir # EmptyDir

\* C9: no step removes a swatch file, a recurring colour adds none, and img/
\* holds exactly one file per distinct colour ever rendered.
C9_SwatchesAccumulate ==
    /\ [][ /\ DOMAIN img_dir \subseteq DOMAIN img_dir'
           /\ rendered' = rendered => DOMAIN img_dir' = DOMAIN img_dir ]_vars
    /\ [](/\ DOMAIN img_dir = { SwatchPath(c) : c \in rendered }
          /\ Cardinality(DOMAIN img_dir) = Cardinality(rendered)
          /\ \A c \in rendered :
                img_dir[SwatchPath(c)].fill = ParseRGB(Tail(c)))

C9_Witness ==
    /\ pc = "done"
    /\ runs_left = 0
    /\ \E n \in 1..Len(colors) : SwatchPath(colors[n]) \in DOMAIN img_dir0
    /\ Cardinality(DOMAIN img_dir) > Cardinality(DOMAIN img_dir0)
    /\ Cardinality(DOMAIN img_dir) > NumColors

\* C10 (as claimed): when a line of the document holds the opening marker and
\* no closing marker follows, everything from that line on is deleted and the
\* fresh block ends the document; when no line holds the opening marker no
\* block is inserted, and the swatches are rendered all the same.
C10_UnterminatedAsClaimed ==
    pc = "done" =>
        LET old == Split(readme0)
            new == Split(readme)
            j == OpenAt(old)
        IN  /\ (j > 0 /\ ClosesFrom(old, j) = {})
                => /\ Len(new) = (j - 1) + 3
                   /\ SubSeq(new, j, Len(new)) = FreshBlock
            /\ j = 0 => (Len(new) = Len(old) /\ AllSwatchesSaved)

\* C10 (amended): the same, the markers being looked for in the lines as the
\* image step left them: an unterminated block is cut from its opening line to
\* the end of the document and the fresh block put there; with no opening
\* marker the lines are written back as they are, the swatches rendered.
C10_Unterminated ==
    pc = "done" =>
        LET new == Split(readme)
            j == OpenAt(lines)
        IN  /\ (j > 0 /\ ClosesFrom(lines, j) = {})
                => new = SubSeq(lines, 1, j - 1) \o FreshBlock
            /\ j = 0 => (new = lines /\ AllSwatchesSaved)

C10_Witness ==
    /\ pc = "done"
    /\ OpenAt(lines) > 1
    /\ ClosesFrom(lines, OpenAt(lines)) = {}
    /\ Len(lines) > OpenAt(lines)
    /\ Len(Split(readme)) = OpenAt(lines) + 2

====
